---- MODULE Spec2Model ----
(***************************************************************************)
(* A model of the collections of src/src/utils.py (NamedList, UniqueList,  *)
(* CircularBufferList) and of the detection engine of src/src/finder.py    *)
(* (Finder.ingest_lightcurves and the methods it calls).                   *)
(*                                                                         *)
(* Python positions are 0-based and TLA+ sequences 1-based: position p of  *)
(* a Python list is element p + 1 of the sequence that models it.          *)
(***************************************************************************)
EXTENDS Integers, Sequences, FiniteSets, TLC

VARIABLES
    ul,            \* UniqueList: the list's elements, in order
    ulAttrs,       \* UniqueList.comparison_attributes
    ulIgnorecase,  \* UniqueList.ignorecase
    ulCall,        \* the last call made on the UniqueList and how it ended
    cbl,           \* CircularBufferList: the list's elements, in order
    cblSize,       \* CircularBufferList.size
    cblTotal,      \* CircularBufferList.total
    cblHist,       \* every element a completed append/extend inserted, in order
    cblCall,       \* the last call made on the CircularBufferList and how it ended
    pars,          \* Finder.pars
    sim,           \* the argument `sim` of the run's ingest_lightcurves calls
    valuesIsView,  \* does lc.data["snr"].values share memory with the column?
    lcRaw,         \* per lightcurve: the raw columns time, flux, fluxerr, mag, flag
    lcSnr,         \* per lightcurve: the column lc.data["snr"] (<<>> while absent)
    lcDmag,        \* per lightcurve: the column lc.data["dmag"] (<<>> while absent)
    lcDetected,    \* per lightcurve: the column lc.data["detected"] (<<>> while absent)
    pc,            \* position of the ingest_lightcurves call: "idle" or "loop"
    curLc,         \* the lightcurve the running call works on
    iter,          \* iterations of the detection loop completed in the running call
    dets,          \* the local list `detections` of the running call
    returned,      \* the calls made so far: lightcurve, outcome, detections returned
    nl,            \* NamedList: the list's elements, in order
    nlIgnorecase,  \* NamedList.ignorecase
    nlCall,        \* the last call made on the NamedList and how it ended
    noDbSession,   \* database.NO_DB_SESSION
    autobegin,     \* the attribute autobegin of the scoped session
    inTransaction, \* the scoped session has a transaction (_transaction is not None)
    pending,       \* the scoped session holds an added object, not committed
    stored,        \* the database holds the object
    ssStack,       \* the SmartSession contexts now open, innermost last
    ssCall,        \* the last call on SmartSession or on a session object
    DATA_ROOT,     \* database.DATA_ROOT, a path
    links,         \* the symbolic links of the file system
    fs,            \* the directories that exist, by their physical paths
    mkCall,        \* the last call of safe_mkdir and how it ended
    mkCount        \* the calls of safe_mkdir made so far

ulVars == <<ul, ulAttrs, ulIgnorecase, ulCall>>
cblVars == <<cbl, cblSize, cblTotal, cblHist, cblCall>>
finderVars == <<pars, sim, valuesIsView, lcRaw, lcSnr, lcDmag, lcDetected, pc, curLc, iter,
                dets, returned>>
nlVars == <<nl, nlIgnorecase, nlCall>>
ssVars == <<noDbSession, autobegin, inTransaction, pending, stored, ssStack, ssCall>>
mkVars == <<DATA_ROOT, links, fs, mkCall, mkCount>>
vars == <<ul, ulAttrs, ulIgnorecase, ulCall, cbl, cblSize, cblTotal, cblHist, cblCall,
          pars, sim, valuesIsView, lcRaw, lcSnr, lcDmag, lcDetected, pc, curLc, iter,
          dets, returned, nl, nlIgnorecase, nlCall,
          noDbSession, autobegin, inTransaction, pending, stored, ssStack, ssCall,
          DATA_ROOT, links, fs, mkCall, mkCount>>

(***************************************************************************)
(* Bounds of the model.                                                    *)
(***************************************************************************)
MaxLen == 3        \* longest UniqueList explored
MaxExt == 2        \* longest argument of an extend call
MaxSize == 2       \* largest CircularBufferList capacity explored
MaxTotal == 4      \* most elements ever inserted into the CircularBufferList
NPts == 2          \* number of points of a lightcurve
MaxDet == 2        \* largest max_det_per_lc explored
MaxCalls == 2      \* most ingest_lightcurves calls in one run
MaxDepth == 2      \* deepest nesting of SmartSession contexts
MaxMkdirs == 2     \* most safe_mkdir calls in one run

NoCall == [op |-> "none", err |-> "none"]

\* the state of an object no call is made on
UL_Parked == ul = <<>> /\ ulAttrs = <<"name">> /\ ulIgnorecase = FALSE /\ ulCall = NoCall
CBL_Parked == cbl = <<>> /\ cblSize = 0 /\ cblTotal = 0 /\ cblHist = <<>> /\ cblCall = NoCall

NoNLCall == [op |-> "none", err |-> "none", key |-> <<>>, result |-> <<>>]
NL_Parked == nl = <<>> /\ nlIgnorecase = FALSE /\ nlCall = NoNLCall

NoSSCall == [op |-> "none", target |-> "none", err |-> "none", result |-> "none"]
SS_Parked ==
    /\ noDbSession = FALSE
    /\ autobegin = TRUE
    /\ inTransaction = FALSE
    /\ pending = FALSE
    /\ stored = FALSE
    /\ ssStack = <<>>
    /\ ssCall = NoSSCall

\* the folder of the code, database.py line 30
CODE_ROOT == <<"code">>
\* database.py line 38
DATA_TEMP == CODE_ROOT \o <<"DATA_TEMP">>
NoMkCall == [path |-> <<>>, err |-> "none"]
Mk_Parked ==
    /\ DATA_ROOT = CODE_ROOT \o <<"results">>
    /\ links = {}
    /\ fs = {<<>>}
    /\ mkCall = NoMkCall
    /\ mkCount = 0

(***************************************************************************)
(* Python list primitives.                                                 *)
(***************************************************************************)
\* list.pop(i) for a position 0 <= i < len: the list without element i
ListPop(list, i) == SubSeq(list, 1, i) \o SubSeq(list, i + 2, Len(list))

\* list[-n:] of Python: the last n elements, and the whole list when n = 0
\* (the slice start -0 is 0) or when n >= len
ListTail(list, n) ==
    IF n = 0 \/ n >= Len(list) THEN list
    ELSE SubSeq(list, Len(list) - n + 1, Len(list))

\* a position given as a Python index (negative counts from the end)
NormIndex(list, p) == IF p < 0 THEN p + Len(list) ELSE p

SeqsUpTo(S, n) == UNION {[1..k -> S] : k \in 0..n}

(***************************************************************************)
(* UniqueList                                                              *)
(***************************************************************************)
\* The objects put into the list: five objects with the attributes "name"
\* and "foo"; objects 1 and 2 are distinct objects with equal attributes,
\* object 3 differs from them in the letter case of its name only.
Pool ==
    { [id |-> 1, name |-> "a", foo |-> "x"],
      [id |-> 2, name |-> "a", foo |-> "x"],
      [id |-> 3, name |-> "A", foo |-> "x"],
      [id |-> 4, name |-> "b", foo |-> "x"],
      [id |-> 5, name |-> "a", foo |-> "y"] }

\* the comparison_attributes the list is constructed with; an empty list
\* is replaced by ["name"]
AttrChoices == { <<>>, <<"name">>, <<"name", "foo">> }

UL_init_attrs(comparison_attributes) ==
    IF Len(comparison_attributes) = 0 THEN <<"name">> ELSE comparison_attributes

\* str.lower() on the strings of the model
Lower(s) ==
    CASE s = "A" -> "a"
      [] s = "B" -> "b"
      [] s = "X" -> "x"
      [] s = "Y" -> "y"
      [] OTHER -> s

\* UniqueList._compare
\* (the variant compares the keys as they are, whatever ignorecase is)
UL_compare_exact(ignorecase, key1, key2) == key1 = key2

UL_compare(ignorecase, key1, key2) ==
    IF ignorecase /\ key1 \in STRING /\ key2 \in STRING
    THEN Lower(key1) = Lower(key2)
    ELSE key1 = key2

\* UniqueList._check: all comparison attributes are the same
UL_check(attrs, ignorecase, value, other) ==
    \A k \in 1..Len(attrs) : UL_compare(ignorecase, value[attrs[k]], other[attrs[k]])

\* UniqueList._check_and_remove: positions len-1 down to 0, popping the matches
RECURSIVE UL_remove_from(_, _, _, _, _)
UL_remove_from(attrs, ignorecase, list, value, i) ==
    IF i < 0 THEN list
    ELSE UL_remove_from(attrs, ignorecase,
                        IF UL_check(attrs, ignorecase, value, list[i + 1])
                        THEN ListPop(list, i) ELSE list,
                        value, i - 1)

UL_check_and_remove(attrs, ignorecase, list, value) ==
    UL_remove_from(attrs, ignorecase, list, value, Len(list) - 1)

\* UniqueList.append
UL_append_result(attrs, ignorecase, list, value) ==
    Append(UL_check_and_remove(attrs, ignorecase, list, value), value)

\* UniqueList.extend: every element of the argument is checked against the
\* list (and removed from it), then the whole argument is added at the end
RECURSIVE UL_remove_all(_, _, _, _, _)
UL_remove_all(attrs, ignorecase, list, value, k) ==
    IF k > Len(value) THEN list
    ELSE UL_remove_all(attrs, ignorecase,
                       UL_check_and_remove(attrs, ignorecase, list, value[k]),
                       value, k + 1)

UL_extend_result(attrs, ignorecase, list, value) ==
    UL_remove_all(attrs, ignorecase, list, value, 1) \o value

\* UniqueList.__setitem__: the positions i of range(len) with i != key that
\* hold a duplicate of value (key is compared as given, not normalised)
UL_setitem_clash(attrs, ignorecase, list, key, value) ==
    { i \in 0..(Len(list) - 1) :
        i # key /\ UL_check(attrs, ignorecase, value, list[i + 1]) }

UL_setitem_error(attrs, ignorecase, list, key, value) ==
    IF UL_setitem_clash(attrs, ignorecase, list, key, value) # {} THEN "ValueError"
    ELSE IF NormIndex(list, key) < 0 \/ NormIndex(list, key) >= Len(list)
         THEN "IndexError"
         ELSE "none"

UL_setitem_result(attrs, ignorecase, list, key, value) ==
    IF UL_setitem_error(attrs, ignorecase, list, key, value) # "none" THEN list
    ELSE [list EXCEPT ![NormIndex(list, key) + 1] = value]

\* The keys a UniqueList is indexed with: positions, scalar strings,
\* sequences (list, tuple or ndarray) of up to two strings, and a key of
\* another type (1.0).  "c" and "z" are carried by no object, and "x" is
\* the foo of some objects and the name of none.
ULKeyNames == {"a", "A", "b", "c"}
ULKeyFoos == {"x", "X", "z"}
ULKeys ==
    { [kind |-> "int", i |-> p, s |-> "", seq |-> <<>>] : p \in -1..1 }
        \cup { [kind |-> "str", i |-> 0, s |-> name, seq |-> <<>>] :
                 name \in ULKeyNames \cup {"x"} }
        \cup { [kind |-> "seq", i |-> 0, s |-> "", seq |-> q] :
                 q \in {<<>>} \cup { <<name>> : name \in ULKeyNames }
                              \cup { <<name, foo>> : name \in ULKeyNames, foo \in ULKeyFoos } }
        \cup { [kind |-> "float", i |-> 1, s |-> "", seq |-> <<>>] }

\* what a lookup returns: an element, or a new UniqueList
UL_element(item) == [kind |-> "element", item |-> item]
UL_new_list(attrs, items) ==
    [kind |-> "list", attrs |-> UL_init_attrs(attrs), ignorecase |-> FALSE,
     items |-> UL_extend_result(UL_init_attrs(attrs), FALSE, <<>>, items)]
UL_raise(err) == [err |-> err, result |-> [kind |-> "none"]]
UL_return(result) == [err |-> "none", result |-> result]

\* the items of list whose first k comparison attributes compare equal to
\* the first k entries of key
UL_shortlist(attrs, ignorecase, list, key, k) ==
    SelectSeq(list, LAMBDA item :
        \A j \in 1..k : UL_compare(ignorecase, key[j], item[attrs[j]]))

\* self.comparison_attributes[i:]
\* (the variant hands the new list all the comparison attributes)
UL_narrow_none(attrs, i) == attrs

UL_narrow(attrs, i) == SubSeq(attrs, i + 1, Len(attrs))

\* UniqueList.__getitem__ for a list, tuple or ndarray key, lines 568-580:
\* i is the value of the loop variable after the loop
UL_getitem_seq(attrs, ignorecase, list, key) ==
    LET i == IF Len(key) < Len(attrs) THEN Len(key) ELSE Len(attrs) - 1
        used == IF Len(key) < Len(attrs) THEN Len(key) ELSE Len(attrs)
        shortlist == UL_shortlist(attrs, ignorecase, list, key, used)
    IN IF i = Len(key) - 1
       THEN IF Len(shortlist) = 0 THEN UL_raise("IndexError")
            ELSE UL_return(UL_element(shortlist[1]))
       ELSE UL_return(UL_new_list(UL_narrow(attrs, i), shortlist))

\* UniqueList.__getitem__ for a str key, lines 582-591
\* (the variant compares the key with every comparison attribute)
UL_getitem_str_any(attrs, ignorecase, list, key) ==
    LET shortlist == SelectSeq(list, LAMBDA item :
                         \E j \in 1..Len(attrs) : UL_compare(ignorecase, key, item[attrs[j]]))
    IN IF Len(shortlist) = 0 THEN UL_raise("KeyError")
       ELSE IF Len(attrs) = 1 THEN UL_return(UL_element(shortlist[1]))
            ELSE UL_return(UL_new_list(UL_narrow(attrs, 1), shortlist))

UL_getitem_str(attrs, ignorecase, list, key) ==
    LET shortlist == UL_shortlist(attrs, ignorecase, list, <<key>>, 1)
    IN IF Len(shortlist) = 0 THEN UL_raise("KeyError")
       ELSE IF Len(attrs) = 1 THEN UL_return(UL_element(shortlist[1]))
            ELSE UL_return(UL_new_list(UL_narrow(attrs, 1), shortlist))

\* UniqueList.__getitem__
UL_getitem_outcome(attrs, ignorecase, list, key) ==
    IF key.kind = "int"
    THEN IF 0 - Len(list) <= key.i /\ key.i < Len(list)
         THEN UL_return(UL_element(list[NormIndex(list, key.i) + 1]))
         ELSE UL_raise("IndexError")
    ELSE IF key.kind = "seq" THEN UL_getitem_seq(attrs, ignorecase, list, key.seq)
    ELSE IF key.kind = "str" THEN UL_getitem_str(attrs, ignorecase, list, key.s)
    ELSE UL_raise("TypeError")

UL_Init ==
    /\ ul = <<>>
    /\ \E a \in AttrChoices : ulAttrs = UL_init_attrs(a)
    /\ ulIgnorecase \in BOOLEAN
    /\ ulCall = NoCall

UL_append(value) ==
    /\ Len(UL_append_result(ulAttrs, ulIgnorecase, ul, value)) <= MaxLen
    /\ ul' = UL_append_result(ulAttrs, ulIgnorecase, ul, value)
    /\ ulCall' = [op |-> "append", err |-> "none"]
    /\ UNCHANGED <<ulAttrs, ulIgnorecase>>
    /\ UNCHANGED <<cblVars, finderVars, nlVars, ssVars, mkVars>>

\* UniqueList.extend and UniqueList.plus, which only calls extend
UL_extend(value) ==
    /\ Len(UL_extend_result(ulAttrs, ulIgnorecase, ul, value)) <= MaxLen
    /\ ul' = UL_extend_result(ulAttrs, ulIgnorecase, ul, value)
    /\ ulCall' = [op |-> "extend", err |-> "none"]
    /\ UNCHANGED <<ulAttrs, ulIgnorecase>>
    /\ UNCHANGED <<cblVars, finderVars, nlVars, ssVars, mkVars>>

UL_setitem(key, value) ==
    /\ ul' = UL_setitem_result(ulAttrs, ulIgnorecase, ul, key, value)
    /\ ulCall' = [op |-> "setitem",
                  err |-> UL_setitem_error(ulAttrs, ulIgnorecase, ul, key, value)]
    /\ UNCHANGED <<ulAttrs, ulIgnorecase>>
    /\ UNCHANGED <<cblVars, finderVars, nlVars, ssVars, mkVars>>

\* ul[key]
UL_getitem(key) ==
    LET outcome == UL_getitem_outcome(ulAttrs, ulIgnorecase, ul, key)
    IN /\ ulCall' = [op |-> "getitem", err |-> outcome.err, key |-> key,
                     result |-> outcome.result]
       /\ UNCHANGED <<ul, ulAttrs, ulIgnorecase>>
       /\ UNCHANGED <<cblVars, finderVars, nlVars, ssVars, mkVars>>

NextUL ==
    \/ \E value \in Pool : UL_append(value)
    \/ \E value \in SeqsUpTo(Pool, MaxExt) : UL_extend(value)
    \/ \E value \in Pool : \E key \in (0 - Len(ul) - 1)..Len(ul) : UL_setitem(key, value)

\* lookups in lists built by append
NextULGet ==
    \/ \E value \in Pool : UL_append(value)
    \/ \E key \in ULKeys : UL_getitem(key)

(***************************************************************************)
(* CircularBufferList                                                      *)
(***************************************************************************)
CBLValues == {1, 2, 3}

CBL_Init ==
    /\ cbl = <<>>
    /\ cblSize \in 0..MaxSize
    /\ cblTotal = 0
    /\ cblHist = <<>>
    /\ cblCall = NoCall

\* CircularBufferList.append raises IndexError (pop from an empty list) when
\* the list is empty and size is 0
CBL_append_error(list, size) ==
    IF Len(list) = size /\ Len(list) = 0 THEN "IndexError" ELSE "none"

CBL_append_result(list, size, value) ==
    IF CBL_append_error(list, size) # "none" THEN list
    ELSE Append(IF Len(list) = size THEN ListPop(list, 0) ELSE list, value)

CBL_append_total(list, size, total) ==
    IF CBL_append_error(list, size) # "none" THEN total ELSE total + 1

CBL_extend_result(list, size, value) == ListTail(list \o value, size)

CBL_extend_total(total, value) == total + Len(value)

CBL_append(value) ==
    /\ Len(cblHist) < MaxTotal
    /\ cbl' = CBL_append_result(cbl, cblSize, value)
    /\ cblTotal' = CBL_append_total(cbl, cblSize, cblTotal)
    /\ cblHist' = IF CBL_append_error(cbl, cblSize) = "none"
                  THEN Append(cblHist, value) ELSE cblHist
    /\ cblCall' = [op |-> "append",
                   err |-> CBL_append_error(cbl, cblSize)]
    /\ UNCHANGED cblSize
    /\ UNCHANGED <<ulVars, finderVars, nlVars, ssVars, mkVars>>

\* CircularBufferList.extend and CircularBufferList.plus, which only calls extend
CBL_extend(value) ==
    /\ Len(cblHist) + Len(value) <= MaxTotal
    /\ cbl' = CBL_extend_result(cbl, cblSize, value)
    /\ cblTotal' = CBL_extend_total(cblTotal, value)
    /\ cblHist' = cblHist \o value
    /\ cblCall' = [op |-> "extend", err |-> "none"]
    /\ UNCHANGED cblSize
    /\ UNCHANGED <<ulVars, finderVars, nlVars, ssVars, mkVars>>

NextCBL ==
    \/ \E value \in CBLValues : CBL_append(value)
    \/ \E value \in SeqsUpTo(CBLValues, MaxExt) : CBL_extend(value)

(***************************************************************************)
(* Finder: the detection engine of src/src/finder.py                       *)
(*                                                                         *)
(* Array positions start at 1 here (Python: at 0).  Floating point values  *)
(* are exact rationals in lowest terms, or NaN.                            *)
(***************************************************************************)
LCs == {1, 2}      \* two distinct Lightcurve objects
\* the positions of the points of the lightcurves (the two have the same data)
Idx == DOMAIN lcRaw[1].flag

NaN == [nan |-> TRUE, n |-> 0, d |-> 1]

AbsInt(k) == IF k < 0 THEN 0 - k ELSE k

RECURSIVE GCD(_, _)
GCD(a, b) == IF b = 0 THEN a ELSE GCD(b, a % b)

\* the number n / d (d > 0), in lowest terms
Rat(n, d) ==
    LET g == GCD(AbsInt(n), d)
    IN [nan |-> FALSE, n |-> n \div g, d |-> d \div g]

Num(k) == Rat(k, 1)
IsNan(a) == a.nan

\* a - b, a / b, a > b, np.maximum(a, b) and np.abs(a); NaN propagates
\* through the arithmetic and compares False.  No division by zero occurs:
\* the noise of the model's lightcurves is positive.
Sub(a, b) == IF a.nan \/ b.nan THEN NaN ELSE Rat(a.n * b.d - b.n * a.d, a.d * b.d)
Div(a, b) ==
    IF a.nan \/ b.nan \/ b.n = 0 THEN NaN
    ELSE IF b.n > 0 THEN Rat(a.n * b.d, a.d * b.n)
         ELSE Rat(0 - a.n * b.d, a.d * (0 - b.n))
Gt(a, b) == ~a.nan /\ ~b.nan /\ a.n * b.d > b.n * a.d
Maximum(a, b) == IF a.nan \/ b.nan THEN NaN ELSE IF Gt(b, a) THEN b ELSE a
AbsV(a) == IF a.nan THEN a ELSE Rat(AbsInt(a.n), a.d)

\* The kinds of points of the model's lightcurves.  With flux_mean_robust = 1
\* and flux_rms_robust = 1 their snr is 8, -8 (fluxerr below the rms), 4
\* (fluxerr above the rms), NaN, and 8 on a flagged point.
PointKinds ==
    { [flux |-> Num(9),  fluxerr |-> Num(1), mag |-> 10, flag |-> FALSE],
      [flux |-> Num(-7), fluxerr |-> Num(0), mag |-> 14, flag |-> FALSE],
      [flux |-> Num(9),  fluxerr |-> Num(2), mag |-> 11, flag |-> FALSE],
      [flux |-> NaN,     fluxerr |-> Num(1), mag |-> 12, flag |-> FALSE],
      [flux |-> Num(9),  fluxerr |-> Num(1), mag |-> 10, flag |-> TRUE] }

\* the times of a lightcurve: not sorted
TimeAt(i) == 10 * ((2 * i + 1) % 5)

\* a Lightcurve: the columns of lc.data and the robust statistics
MakeLc(kinds) ==
    [ time    |-> [i \in DOMAIN kinds |-> TimeAt(i)],
      flux    |-> [i \in DOMAIN kinds |-> kinds[i].flux],
      fluxerr |-> [i \in DOMAIN kinds |-> kinds[i].fluxerr],
      mag     |-> [i \in DOMAIN kinds |-> kinds[i].mag],
      flag    |-> [i \in DOMAIN kinds |-> kinds[i].flag],
      flux_mean_robust |-> Num(1),
      flux_rms_robust  |-> Num(1) ]

\* Finder.__init__: the parameters.  sidebands.present is the outcome of
\* `"snr_threshold_sidebands" in self.pars`.
SidebandChoices ==
    { [present |-> FALSE, value |-> 0],
      [present |-> TRUE,  value |-> -2],
      [present |-> TRUE,  value |-> 6] }

ParChoices ==
    [ snr_threshold  : {5, -1},
      sidebands      : SidebandChoices,
      max_det_per_lc : 0..MaxDet,
      abs_snr        : BOOLEAN ]

\* the argument sim of ingest_lightcurves: None (real data) or a mapping of
\* truth values, here the empty one
SimChoices ==
    { [given |-> FALSE, mapping |-> {}],
      [given |-> TRUE,  mapping |-> {}] }

\* Finder.estimate_flux_noise
estimate_flux_noise(lc) ==
    [i \in Idx |-> Maximum(lc.fluxerr[i], lc.flux_rms_robust)]

\* lc.data["snr"] = (flux - flux_mean_robust) / noise
ComputeSnr(lc) ==
    [i \in Idx |-> Div(Sub(lc.flux[i], lc.flux_mean_robust), estimate_flux_noise(lc)[i])]

\* the median of a column of integers
RECURSIVE SortInts(_)
SortInts(s) ==
    IF Len(s) = 0 THEN <<>>
    ELSE LET k == CHOOSE k \in 1..Len(s) : \A j \in 1..Len(s) : s[k] <= s[j]
         IN <<s[k]>> \o SortInts(ListPop(s, k - 1))

Median(s) ==
    LET t == SortInts(s)
        n == Len(t)
    IN IF n % 2 = 1 THEN Num(t[(n + 1) \div 2])
       ELSE Rat(t[n \div 2] + t[n \div 2 + 1], 2)

\* lc.data["dmag"] = mag - median(mag)
ComputeDmag(lc) == [i \in Idx |-> Sub(Num(lc.mag[i]), Median(lc.mag))]

\* lc.data["detected"] = False, when the column is absent
\* (the variant writes the column in every call)
InitDetected_always(detected) == [i \in Idx |-> FALSE]

InitDetected(detected) == IF detected = <<>> THEN [i \in Idx |-> FALSE] ELSE detected

\* One iteration of the detection loop, lines 103-114.
\* snr = lc.data["snr"].values, np.abs(snr) when abs_snr (a new array)
WorkingSnr(column, p) == [i \in Idx |-> IF p.abs_snr THEN AbsV(column[i]) ELSE column[i]]

ExclusionMask(detected, flag, snr) ==
    [i \in Idx |-> detected[i] \/ flag[i] \/ IsNan(snr[i])]

\* snr[mask] = 0
MaskedSnr(snr, mask) == [i \in Idx |-> IF mask[i] THEN Num(0) ELSE snr[i]]

\* the column lc.data["snr"] after snr[mask] = 0: the write reaches the
\* column when snr is the array of the column itself (abs_snr off) and
\* .values is a view on it
ColumnAfterMasking(column, p, view, masked) ==
    IF ~p.abs_snr /\ view THEN masked ELSE column

\* np.argmax: the first position of the maximum
ArgMax(snr) ==
    CHOOSE i \in Idx :
        /\ \A j \in Idx : ~Gt(snr[j], snr[i])
        /\ \A j \in 1..(i - 1) : Gt(snr[i], snr[j])

\* Finder.get_event_indices
\* (the variant takes the detection threshold whatever the sideband is)
EventThreshold_no_sidebands(p) == p.snr_threshold

EventThreshold(p) ==
    IF p.sidebands.present
    THEN IF p.sidebands.value < 0
         THEN p.snr_threshold + p.sidebands.value
         ELSE p.sidebands.value
    ELSE p.snr_threshold

get_event_indices(column, p) == [i \in Idx |-> Gt(column[i], Num(EventThreshold(p)))]

\* np.where(det.time_indices)[0]
WhereTrue(indices) == { i \in Idx : indices[i] }
FirstOf(S) == CHOOSE i \in S : \A j \in S : i <= j
LastOf(S) == CHOOSE i \in S : \A j \in S : j <= i

\* lightcurve.data.loc[det.time_indices, "detected"] = True
MarkDetected(detected, indices) == [i \in Idx |-> detected[i] \/ indices[i]]

\* det.simulated = sim is not None
IsSimulated(simulation) == simulation.given

\* Finder.make_detection, for a non-empty det.time_indices
make_detection(peak_idx, lc, raw, column, p, simulation) ==
    LET indices == get_event_indices(column, p)
    IN [ lightcurve   |-> lc,
         peak_idx     |-> peak_idx,
         time_peak    |-> raw.time[peak_idx],
         snr          |-> column[peak_idx],
         time_indices |-> indices,
         time_start   |-> raw.time[FirstOf(WhereTrue(indices))],
         time_end     |-> raw.time[LastOf(WhereTrue(indices))],
         simulated    |-> IsSimulated(simulation),
         sim_pars     |-> simulation ]

\* for i in range(max_det_per_lc): is there an iteration number i?
\* (the variant lets the loop run once more than the cap)
LoopContinues_inclusive(i, max_det_per_lc) == i <= max_det_per_lc

LoopContinues(i, max_det_per_lc) == i < max_det_per_lc

\* the iteration the running call is about to make
\* (the variant keeps the markers on the engine, shared by all lightcurves)
It_masked_shared ==
    LET w == WorkingSnr(lcSnr[curLc], pars)
        shared == [i \in Idx |-> \E lc \in LCs : lcDetected[lc] # <<>> /\ lcDetected[lc][i]]
    IN MaskedSnr(w, ExclusionMask(shared, lcRaw[curLc].flag, w))

It_masked ==
    LET w == WorkingSnr(lcSnr[curLc], pars)
    IN MaskedSnr(w, ExclusionMask(lcDetected[curLc], lcRaw[curLc].flag, w))
It_column == ColumnAfterMasking(lcSnr[curLc], pars, valuesIsView, It_masked)
It_idx == ArgMax(It_masked)
It_mx == It_masked[It_idx]
It_above == Gt(It_mx, Num(pars.snr_threshold))
It_indices == get_event_indices(It_column, pars)

CallRecord(lc, err, detections) == [lc |-> lc, err |-> err, detections |-> detections]

Finder_Init ==
    /\ pars \in ParChoices
    /\ sim \in SimChoices
    \* np.abs allocates the working array, so the sharing of .values is
    \* only a choice when abs_snr is off
    /\ valuesIsView \in (IF pars.abs_snr THEN {TRUE} ELSE BOOLEAN)
    /\ \E kinds \in [1..NPts -> PointKinds] : lcRaw = [lc \in LCs |-> MakeLc(kinds)]
    /\ lcSnr = [lc \in LCs |-> <<>>]
    /\ lcDmag = [lc \in LCs |-> <<>>]
    /\ lcDetected = [lc \in LCs |-> <<>>]
    /\ pc = "idle"
    /\ curLc = 1
    /\ iter = 0
    /\ dets = <<>>
    /\ returned = <<>>

\* Lightcurves of quiet sources, one point longer: a point at the robust
\* mean (snr 0), a point half an rms below it (snr -1/2) and a flagged
\* point (snr 8); the engine takes the detection threshold as given or -1
\* and its sideband as given or absent.
QuietKinds ==
    { [flux |-> Num(1),    fluxerr |-> Num(1), mag |-> 12, flag |-> FALSE],
      [flux |-> Rat(1, 2), fluxerr |-> Num(1), mag |-> 13, flag |-> FALSE],
      [flux |-> Num(9),    fluxerr |-> Num(1), mag |-> 10, flag |-> TRUE] }

QuietParChoices ==
    [ snr_threshold  : {5, -1},
      sidebands      : { [present |-> FALSE, value |-> 0], [present |-> TRUE, value |-> 6] },
      max_det_per_lc : 0..MaxDet,
      abs_snr        : BOOLEAN ]

Quiet_Init ==
    /\ pars \in QuietParChoices
    /\ sim = [given |-> FALSE, mapping |-> {}]
    /\ valuesIsView \in (IF pars.abs_snr THEN {TRUE} ELSE BOOLEAN)
    /\ \E kinds \in [1..(NPts + 1) -> QuietKinds] : lcRaw = [lc \in LCs |-> MakeLc(kinds)]
    /\ lcSnr = [lc \in LCs |-> <<>>]
    /\ lcDmag = [lc \in LCs |-> <<>>]
    /\ lcDetected = [lc \in LCs |-> <<>>]
    /\ pc = "idle"
    /\ curLc = 1
    /\ iter = 0
    /\ dets = <<>>
    /\ returned = <<>>

Finder_Parked ==
    /\ pars = [snr_threshold |-> 5, sidebands |-> [present |-> TRUE, value |-> -2],
               max_det_per_lc |-> 1, abs_snr |-> TRUE]
    /\ sim = [given |-> FALSE, mapping |-> {}]
    /\ valuesIsView = TRUE
    /\ lcRaw = [lc \in LCs |-> <<>>]
    /\ lcSnr = [lc \in LCs |-> <<>>]
    /\ lcDmag = [lc \in LCs |-> <<>>]
    /\ lcDetected = [lc \in LCs |-> <<>>]
    /\ pc = "idle"
    /\ curLc = 1
    /\ iter = 0
    /\ dets = <<>>
    /\ returned = <<>>

\* lc.data[name] = value: a write to a derived column of the DataFrame of
\* this lightcurve (the variant writes to a DataFrame that the lightcurves
\* share)
SetColumn_shared(cols, lc, value) == [l \in LCs |-> value]

SetColumn(cols, lc, value) == [cols EXCEPT ![lc] = value]

\* ingest_lightcurves(lc), lines 86-99: the scores and the detected column
Ingest_begin(lc) ==
    /\ pc = "idle"
    /\ Len(returned) < MaxCalls
    /\ lcSnr' = SetColumn(lcSnr, lc, ComputeSnr(lcRaw[lc]))
    /\ lcDmag' = SetColumn(lcDmag, lc, ComputeDmag(lcRaw[lc]))
    /\ lcDetected' = SetColumn(lcDetected, lc, InitDetected(lcDetected[lc]))
    /\ pc' = "loop"
    /\ curLc' = lc
    /\ iter' = 0
    /\ dets' = <<>>
    /\ UNCHANGED <<pars, sim, valuesIsView, lcRaw, returned>>
    /\ UNCHANGED <<ulVars, cblVars, nlVars, ssVars, mkVars>>

\* an iteration whose maximum exceeds snr_threshold and whose detection is
\* assembled, lines 103-117 and 205-223
Ingest_detect ==
    /\ pc = "loop"
    /\ LoopContinues(iter, pars.max_det_per_lc)
    /\ It_above
    /\ WhereTrue(It_indices) # {}
    /\ lcSnr' = SetColumn(lcSnr, curLc, It_column)
    /\ lcDetected' = SetColumn(lcDetected, curLc, MarkDetected(lcDetected[curLc], It_indices))
    /\ dets' = Append(dets, make_detection(It_idx, curLc, lcRaw[curLc], It_column, pars, sim))
    /\ iter' = iter + 1
    /\ UNCHANGED <<pars, sim, valuesIsView, lcRaw, lcDmag, pc, curLc, returned>>
    /\ UNCHANGED <<ulVars, cblVars, nlVars, ssVars, mkVars>>

\* an iteration whose maximum exceeds snr_threshold while det.time_indices
\* has no True entry: np.where(...)[0][0] raises IndexError (line 216) and
\* the call ends with it
Ingest_raise ==
    /\ pc = "loop"
    /\ LoopContinues(iter, pars.max_det_per_lc)
    /\ It_above
    /\ WhereTrue(It_indices) = {}
    /\ lcSnr' = SetColumn(lcSnr, curLc, It_column)
    /\ returned' = Append(returned, CallRecord(curLc, "IndexError", <<>>))
    /\ pc' = "idle"
    /\ iter' = 0
    /\ dets' = <<>>
    /\ UNCHANGED <<pars, sim, valuesIsView, lcRaw, lcDmag, lcDetected, curLc>>
    /\ UNCHANGED <<ulVars, cblVars, nlVars, ssVars, mkVars>>

\* an iteration whose maximum does not exceed snr_threshold: break, and the
\* call returns its detections (lines 118-121)
Ingest_break ==
    /\ pc = "loop"
    /\ LoopContinues(iter, pars.max_det_per_lc)
    /\ ~It_above
    /\ lcSnr' = SetColumn(lcSnr, curLc, It_column)
    /\ returned' = Append(returned, CallRecord(curLc, "none", dets))
    /\ pc' = "idle"
    /\ iter' = 0
    /\ dets' = <<>>
    /\ UNCHANGED <<pars, sim, valuesIsView, lcRaw, lcDmag, lcDetected, curLc>>
    /\ UNCHANGED <<ulVars, cblVars, nlVars, ssVars, mkVars>>

\* range(max_det_per_lc) is exhausted: the call returns its detections
Ingest_exhaust ==
    /\ pc = "loop"
    /\ ~LoopContinues(iter, pars.max_det_per_lc)
    /\ returned' = Append(returned, CallRecord(curLc, "none", dets))
    /\ pc' = "idle"
    /\ iter' = 0
    /\ dets' = <<>>
    /\ UNCHANGED <<pars, sim, valuesIsView, lcRaw, lcSnr, lcDmag, lcDetected, curLc>>
    /\ UNCHANGED <<ulVars, cblVars, nlVars, ssVars, mkVars>>

NextFinder ==
    \/ \E lc \in LCs : Ingest_begin(lc)
    \/ Ingest_detect
    \/ Ingest_raise
    \/ Ingest_break
    \/ Ingest_exhaust

(***************************************************************************)
(* NamedList: a list of objects indexed by position or by name             *)
(***************************************************************************)
\* The keys a NamedList is indexed with: names (one of them carried by no
\* object), positions inside and outside the list, and keys that are
\* neither str nor int (1.0, None).
NLKeys ==
    { [kind |-> "str", s |-> name, i |-> 0] : name \in {"a", "A", "b", "c"} }
        \cup { [kind |-> "int", s |-> "", i |-> p] : p \in (0 - MaxLen - 1)..MaxLen }
        \cup { [kind |-> "float", s |-> "", i |-> 1],
               [kind |-> "NoneType", s |-> "", i |-> 0] }

\* NamedList.convert_name
convert_name(ignorecase, name) == IF ignorecase THEN Lower(name) ELSE name

\* [self.convert_name(item.name) for item in self]
NL_names(list, ignorecase) ==
    [k \in 1..Len(list) |-> convert_name(ignorecase, list[k].name)]

\* list.index(x): the first position of x; ValueError when x is absent
ListHas(list, x) == \E k \in 1..Len(list) : list[k] = x
ListIndex(list, x) ==
    (CHOOSE k \in 1..Len(list) :
        list[k] = x /\ \A j \in 1..(k - 1) : list[j] # x) - 1

\* list.__getitem__(p) for an integer p; IndexError when p is out of range
ListInRange(list, p) == 0 - Len(list) <= p /\ p < Len(list)
ListGet(list, p) == list[NormIndex(list, p) + 1]

\* NamedList.__getitem__: the exception it raises, or "none"
\* (the variant looks the name up by a search that ends past the list)
NL_getitem_error_conflated(list, ignorecase, key) ==
    IF key.kind = "str"
    THEN IF ListHas(NL_names(list, ignorecase), convert_name(ignorecase, key.s))
         THEN "none" ELSE "IndexError"
    ELSE IF key.kind = "int"
         THEN IF ListInRange(list, key.i) THEN "none" ELSE "IndexError"
         ELSE "TypeError"

NL_getitem_error(list, ignorecase, key) ==
    IF key.kind = "str"
    THEN IF ListHas(NL_names(list, ignorecase), convert_name(ignorecase, key.s))
         THEN "none" ELSE "ValueError"
    ELSE IF key.kind = "int"
         THEN IF ListInRange(list, key.i) THEN "none" ELSE "IndexError"
         ELSE "TypeError"

\* NamedList.__getitem__: the element it returns
\* (the variant searches the names from the end of the list)
NL_getitem_result_last(list, ignorecase, key) ==
    IF key.kind = "str"
    THEN list[CHOOSE k \in 1..Len(list) :
                 /\ NL_names(list, ignorecase)[k] = convert_name(ignorecase, key.s)
                 /\ \A j \in (k + 1)..Len(list) :
                        NL_names(list, ignorecase)[j] # convert_name(ignorecase, key.s)]
    ELSE ListGet(list, key.i)

NL_getitem_result(list, ignorecase, key) ==
    IF key.kind = "str"
    THEN ListGet(list, ListIndex(NL_names(list, ignorecase),
                                 convert_name(ignorecase, key.s)))
    ELSE ListGet(list, key.i)

\* NamedList.__contains__, for a string
\* (the variant compares the name as given with the names as stored)
NL_contains_exact(list, ignorecase, name) ==
    ListHas([k \in 1..Len(list) |-> list[k].name], name)

NL_contains_result(list, ignorecase, name) ==
    ListHas(NL_names(list, ignorecase), convert_name(ignorecase, name))

\* NamedList.keys
NL_keys_result(list) == [k \in 1..Len(list) |-> list[k].name]

\* NamedList.__init__
NL_Init ==
    /\ nl = <<>>
    /\ nlIgnorecase \in BOOLEAN
    /\ nlCall = NoNLCall

\* list.append, which NamedList inherits
NL_append(value) ==
    /\ Len(nl) < MaxLen
    /\ nl' = Append(nl, value)
    /\ nlCall' = [op |-> "append", err |-> "none", key |-> <<>>, result |-> <<>>]
    /\ UNCHANGED nlIgnorecase
    /\ UNCHANGED <<ulVars, cblVars, finderVars, ssVars, mkVars>>

\* nl[key]
NL_getitem(key) ==
    LET err == NL_getitem_error(nl, nlIgnorecase, key)
    IN /\ nlCall' = [op |-> "getitem", err |-> err, key |-> <<key>>,
                     result |-> IF err = "none"
                                THEN <<NL_getitem_result(nl, nlIgnorecase, key)>>
                                ELSE <<>>]
       /\ UNCHANGED <<nl, nlIgnorecase>>
       /\ UNCHANGED <<ulVars, cblVars, finderVars, ssVars, mkVars>>

\* key in nl, for a string key
NL_contains(key) ==
    /\ key.kind = "str"
    /\ nlCall' = [op |-> "contains", err |-> "none", key |-> <<key>>,
                  result |-> <<NL_contains_result(nl, nlIgnorecase, key.s)>>]
    /\ UNCHANGED <<nl, nlIgnorecase>>
    /\ UNCHANGED <<ulVars, cblVars, finderVars, ssVars, mkVars>>

\* nl.keys()
NL_keys ==
    /\ nlCall' = [op |-> "keys", err |-> "none", key |-> <<>>,
                  result |-> <<NL_keys_result(nl)>>]
    /\ UNCHANGED <<nl, nlIgnorecase>>
    /\ UNCHANGED <<ulVars, cblVars, finderVars, ssVars, mkVars>>

NextNL ==
    \/ \E value \in Pool : NL_append(value)
    \/ \E key \in NLKeys : NL_getitem(key)
    \/ \E key \in NLKeys : NL_contains(key)
    \/ NL_keys

(***************************************************************************)
(* SmartSession, NoOpSession and NullQueryResults of src/src/database.py   *)
(*                                                                         *)
(* Session is a scoped_session: Session() hands out the one session of the *)
(* thread, called "Session" here.  The tests rely on it: the autobegin     *)
(* flag they set on one Session() is in force in the later ones.           *)
(***************************************************************************)
\* what is passed as input_session: None, False, the session, a
\* NoOpSession, or something else (a number)
SSInputs == {"None", "False", "Session", "NoOpSession", "int"}

\* SmartSession, lines 139-163: what it yields and whether it opened the
\* session itself (`with Session() as session`)
\* (the variant looks at the input before the global switch)
SS_yield_input_first(no_db, input_session) ==
    IF input_session = "None"
    THEN IF no_db THEN [err |-> "none", yields |-> "NoOpSession", created |-> FALSE]
         ELSE [err |-> "none", yields |-> "Session", created |-> TRUE]
    ELSE IF input_session = "False"
    THEN [err |-> "none", yields |-> "NoOpSession", created |-> FALSE]
    ELSE IF input_session \in {"NoOpSession", "Session"}
    THEN [err |-> "none", yields |-> input_session, created |-> FALSE]
    ELSE [err |-> "TypeError", yields |-> "none", created |-> FALSE]

SS_yield(no_db, input_session) ==
    IF no_db
    THEN [err |-> "none", yields |-> "NoOpSession", created |-> FALSE]
    ELSE IF input_session = "None"
    THEN [err |-> "none", yields |-> "Session", created |-> TRUE]
    ELSE IF input_session = "False"
    THEN [err |-> "none", yields |-> "NoOpSession", created |-> FALSE]
    ELSE IF input_session \in {"NoOpSession", "Session"}
    THEN [err |-> "none", yields |-> input_session, created |-> FALSE]
    ELSE [err |-> "TypeError", yields |-> "none", created |-> FALSE]

\* the methods of NoOpSession, and of NullQueryResults through
\* scalars(...): what they return
NoOpMethods == {"add", "delete", "commit", "rollback", "all", "first", "_transaction"}
NoOp_result(method) == IF method = "all" THEN "[]" ELSE "None"

\* the scoped session as the tests use it: begin, add, commit,
\* scalars(...).all() and _transaction.  An operation that needs a
\* transaction begins one when autobegin is on and raises
\* InvalidRequestError when it is off.
SessionMethods == {"begin", "add", "commit", "all", "_transaction"}
Session_error(method) ==
    IF method = "begin" THEN IF inTransaction THEN "InvalidRequestError" ELSE "none"
    ELSE IF method \in {"add", "commit", "all"} /\ ~inTransaction /\ ~autobegin
         THEN "InvalidRequestError"
         ELSE "none"

SS_Init ==
    /\ noDbSession \in BOOLEAN
    /\ autobegin \in BOOLEAN
    /\ inTransaction = FALSE
    /\ pending = FALSE
    /\ stored = FALSE
    /\ ssStack = <<>>
    /\ ssCall = NoSSCall

\* src.database.NO_DB_SESSION = value
SS_set_switch(value) ==
    /\ noDbSession # value
    /\ noDbSession' = value
    /\ ssCall' = [op |-> "set_switch", target |-> "none", err |-> "none", result |-> "none"]
    /\ UNCHANGED <<autobegin, inTransaction, pending, stored, ssStack>>
    /\ UNCHANGED <<ulVars, cblVars, finderVars, nlVars, mkVars>>

\* with SmartSession(input_session) as session: the entry
SS_enter(input_session) ==
    LET y == SS_yield(noDbSession, input_session)
    IN /\ Len(ssStack) < MaxDepth
       /\ ssStack' = IF y.err = "none"
                     THEN Append(ssStack, [input |-> input_session, yields |-> y.yields,
                                           created |-> y.created])
                     ELSE ssStack
       /\ ssCall' = [op |-> "enter", target |-> input_session, err |-> y.err,
                     result |-> y.yields]
       /\ UNCHANGED <<noDbSession, autobegin, inTransaction, pending, stored>>
       /\ UNCHANGED <<ulVars, cblVars, finderVars, nlVars, mkVars>>

\* the exit of the innermost context: `with Session() as session` closes
\* the session when this context opened it
SS_exit ==
    /\ ssStack # <<>>
    /\ LET top == ssStack[Len(ssStack)]
       IN /\ inTransaction' = IF top.created THEN FALSE ELSE inTransaction
          /\ pending' = IF top.created THEN FALSE ELSE pending
          /\ ssCall' = [op |-> "exit", target |-> top.yields, err |-> "none",
                        result |-> IF top.created THEN "closed" ELSE "none"]
    /\ ssStack' = SubSeq(ssStack, 1, Len(ssStack) - 1)
    /\ UNCHANGED <<noDbSession, autobegin, stored>>
    /\ UNCHANGED <<ulVars, cblVars, finderVars, nlVars, mkVars>>

\* a method of a NoOpSession (or of the NullQueryResults it returns)
NoOp_call(method) ==
    /\ ssCall' = [op |-> method, target |-> "NoOpSession", err |-> "none",
                  result |-> NoOp_result(method)]
    /\ UNCHANGED <<noDbSession, autobegin, inTransaction, pending, stored, ssStack>>
    /\ UNCHANGED <<ulVars, cblVars, finderVars, nlVars, mkVars>>

\* a method of the scoped session
Session_call(method) ==
    LET err == Session_error(method)
    IN /\ inTransaction' =
              IF err # "none" THEN inTransaction
              ELSE IF method = "commit" THEN FALSE
              ELSE IF method = "_transaction" THEN inTransaction
              ELSE TRUE
       /\ pending' = IF err = "none" /\ method = "add" THEN TRUE
                     ELSE IF err = "none" /\ method = "commit" THEN FALSE
                     ELSE pending
       /\ stored' = IF err = "none" /\ method = "commit" THEN stored \/ pending ELSE stored
       /\ ssCall' = [op |-> method, target |-> "Session", err |-> err,
                     result |-> IF err # "none" THEN "none"
                                ELSE IF method = "all"
                                     THEN IF stored THEN "[source]" ELSE "[]"
                                ELSE IF method = "_transaction"
                                     THEN IF inTransaction THEN "transaction" ELSE "None"
                                ELSE "None"]
       /\ UNCHANGED <<noDbSession, autobegin, ssStack>>
       /\ UNCHANGED <<ulVars, cblVars, finderVars, nlVars, mkVars>>

NextSession ==
    \/ \E value \in BOOLEAN : SS_set_switch(value)
    \/ \E input_session \in SSInputs : SS_enter(input_session)
    \/ SS_exit
    \/ \E method \in NoOpMethods : NoOp_call(method)
    \/ \E method \in SessionMethods : Session_call(method)

(***************************************************************************)
(* safe_mkdir of src/src/database.py                                       *)
(*                                                                         *)
(* A path is the sequence of its components below the root of the file     *)
(* system; ".." is a component like any other until a function resolves    *)
(* it.  A symbolic link is a record [at, to]: the entry at path `at`       *)
(* stands for the directory `to`.                                          *)
(***************************************************************************)
dirname(path) == IF path = <<>> THEN <<>> ELSE SubSeq(path, 1, Len(path) - 1)

\* os.path.abspath: ".." removes the component before it, as text
RECURSIVE normpath(_, _)
normpath(done, rest) ==
    IF rest = <<>> THEN done
    ELSE normpath(IF Head(rest) = ".." THEN dirname(done) ELSE Append(done, Head(rest)),
                  Tail(rest))
abspath(path) == normpath(<<>>, path)

\* where the entry at a physical path leads
follow(lnks, path) ==
    IF \E l \in lnks : l.at = path
    THEN (CHOOSE l \in lnks : l.at = path).to
    ELSE path

\* os.path.realpath, and the way the operating system walks a path: each
\* link is followed where it stands and ".." is the parent of the
\* directory reached so far
RECURSIVE walk(_, _, _)
walk(lnks, done, rest) ==
    IF rest = <<>> THEN done
    ELSE walk(lnks,
              IF Head(rest) = ".." THEN dirname(done)
              ELSE follow(lnks, Append(done, Head(rest))),
              Tail(rest))
realpath(lnks, path) == walk(lnks, <<>>, path)

\* os.path.commonpath([parent]) == os.path.commonpath([parent, child]):
\* parent is child or one of its ancestors, component by component
commonpath_is_parent(parent, child) ==
    /\ Len(parent) <= Len(child)
    /\ SubSeq(child, 1, Len(parent)) = parent

\* lines 176-181
allowed_dirs(data_root) ==
    {data_root, CODE_ROOT \o <<"results">>, CODE_ROOT \o <<"catalogs">>, DATA_TEMP}

\* lines 183-189: the test of the path
safe_mkdir_ok(data_root, lnks, path) ==
    \E d \in allowed_dirs(data_root) :
        LET parent == realpath(lnks, abspath(d))
            child == realpath(lnks, abspath(path))
        IN commonpath_is_parent(parent, child)

\* os.makedirs(path, exist_ok=True): every directory on the way is made,
\* where the operating system finds it
makedirs(dirs, lnks, path) ==
    dirs \cup {realpath(lnks, SubSeq(path, 1, k)) : k \in 1..Len(path)}

\* the paths safe_mkdir is called with
MkPrefixes ==
    {CODE_ROOT, CODE_ROOT \o <<"results">>, CODE_ROOT \o <<"result">>,
     CODE_ROOT \o <<"catalogs">>, DATA_TEMP, <<"data">>,
     CODE_ROOT \o <<"results", "link">>, CODE_ROOT \o <<"in">>}
MkSuffixes == {<<>>, <<"a">>, <<"a", "b">>, <<"..", "x">>, <<"a", "..", "..", "x">>}
MkPaths == {pre \o suf : pre \in MkPrefixes, suf \in MkSuffixes}

\* the links the file system may hold: one inside results that leads to
\* the folder of the code, one beside results that leads into it
MkLinks ==
    {[at |-> CODE_ROOT \o <<"results", "link">>, to |-> CODE_ROOT],
     [at |-> CODE_ROOT \o <<"in">>, to |-> CODE_ROOT \o <<"results">>]}

\* lines 34-36: RETRIEVER_DATA names another folder, or is not set
Mk_Init ==
    /\ DATA_ROOT \in {<<"data">>, CODE_ROOT \o <<"results">>}
    /\ links \in SUBSET MkLinks
    /\ fs = {<<>>, CODE_ROOT, CODE_ROOT \o <<"results">>, <<"data">>}
    /\ mkCall = NoMkCall
    /\ mkCount = 0

safe_mkdir(path) ==
    /\ mkCount < MaxMkdirs
    /\ mkCount' = mkCount + 1
    /\ IF safe_mkdir_ok(DATA_ROOT, links, path)
       THEN /\ fs' = makedirs(fs, links, path)
            /\ mkCall' = [path |-> path, err |-> "none"]
       ELSE /\ fs' = fs
            /\ mkCall' = [path |-> path, err |-> "ValueError"]
    /\ UNCHANGED <<DATA_ROOT, links>>
    /\ UNCHANGED <<ulVars, cblVars, finderVars, nlVars, ssVars>>

NextMkdir == \E path \in MkPaths : safe_mkdir(path)

(***************************************************************************)
(* Specifications: one per object under study; the variables of the other  *)
(* objects stay at their initial values.                                   *)
(***************************************************************************)

InitUL == UL_Init /\ CBL_Parked /\ Finder_Parked /\ NL_Parked /\ SS_Parked /\ Mk_Parked
SpecUL == InitUL /\ [][NextUL]_vars

SpecULGet == InitUL /\ [][NextULGet]_vars

InitCBL == CBL_Init /\ UL_Parked /\ Finder_Parked /\ NL_Parked /\ SS_Parked /\ Mk_Parked
SpecCBL == InitCBL /\ [][NextCBL]_vars

InitFinder == Finder_Init /\ UL_Parked /\ CBL_Parked /\ NL_Parked /\ SS_Parked /\ Mk_Parked
SpecFinder == InitFinder /\ [][NextFinder]_vars

InitQuiet ==
    Quiet_Init /\ UL_Parked /\ CBL_Parked /\ NL_Parked /\ SS_Parked /\ Mk_Parked
SpecQuiet == InitQuiet /\ [][NextFinder]_vars

InitSession == SS_Init /\ UL_Parked /\ CBL_Parked /\ Finder_Parked /\ NL_Parked /\ Mk_Parked
SpecSession == InitSession /\ [][NextSession]_vars

InitMkdir ==
    Mk_Init /\ UL_Parked /\ CBL_Parked /\ Finder_Parked /\ NL_Parked /\ SS_Parked
SpecMkdir == InitMkdir /\ [][NextMkdir]_vars

InitNL == NL_Init /\ UL_Parked /\ CBL_Parked /\ Finder_Parked /\ SS_Parked /\ Mk_Parked
SpecNL == InitNL /\ [][NextNL]_vars

(***************************************************************************)
(* Claims about the UniqueList (SpecUL).                                   *)
(***************************************************************************)
\* the positions of list (1-based) whose composite key equals that of value
UL_SameKey(list, value) ==
    { i \in 1..Len(list) : UL_check(ulAttrs, ulIgnorecase, value, list[i]) }

UL_IsOther(value, other) == ~UL_check(ulAttrs, ulIgnorecase, value, other)

\* C1: after any sequence of append, extend (plus) and positional assignment,
\* no two elements of the list have equal composite keys.
C1_NoEqualKeys ==
    \A i, j \in 1..Len(ul) :
        i # j => ~UL_check(ulAttrs, ulIgnorecase, ul[i], ul[j])

\* what C2 says of an append of value that takes the list from old to new
C2_AppendPost(old, new, value) ==
    /\ Len(new) >= 1
    /\ new[Len(new)] = value
    /\ UL_SameKey(new, value) = {Len(new)}
    /\ SubSeq(new, 1, Len(new) - 1) = SelectSeq(old, LAMBDA o : UL_IsOther(value, o))
    /\ Len(new) = IF UL_SameKey(old, value) # {} THEN Len(old) ELSE Len(old) + 1

\* C2: an append of value leaves exactly one element with value's key, value
\* itself, at the last position; the other elements are kept in their order;
\* the length is unchanged when the key was in the list and grows by one
\* when it was not.
C2_AppendReplaces ==
    [][\A value \in Pool : UL_append(value) => C2_AppendPost(ul, ul', value)]_vars

(***************************************************************************)
(* Claims about the CircularBufferList (SpecCBL).                          *)
(***************************************************************************)
Min(a, b) == IF a < b THEN a ELSE b

\* the last n elements of a sequence (all of it when it has fewer; none when n = 0)
LastN(seq, n) == SubSeq(seq, Len(seq) - Min(n, Len(seq)) + 1, Len(seq))

\* C3: for every capacity size >= 0 the length of the buffer never exceeds
\* size and equals min(total, size).
C3_LengthBounded ==
    /\ Len(cbl) <= cblSize
    /\ Len(cbl) = Min(cblTotal, cblSize)

\* C4: the buffer holds the last `size` elements ever inserted (all of them
\* when fewer were inserted), in insertion order.
C4_ContentIsLastInserted == cbl = LastN(cblHist, cblSize)

\* what C5 says of one call
C5_TotalStep ==
    /\ \A value \in CBLValues :
          CBL_append(value) => cblTotal' = cblTotal + 1
    /\ \A value \in SeqsUpTo(CBLValues, MaxExt) :
          CBL_extend(value) => cblTotal' = cblTotal + Len(value)
    /\ cblTotal' >= cblTotal
    /\ cblTotal' = Len(cblHist')

\* C5: total starts at 0, grows by exactly 1 with each append and by the
\* whole length of the argument with each extend, never decreases, and
\* always equals the number of elements ever inserted.
C5_TotalCountsInsertions ==
    /\ cblTotal = 0
    /\ [][C5_TotalStep]_vars

(***************************************************************************)
(* Claims about the Finder (SpecFinder).                                   *)
(***************************************************************************)
\* the detections made so far by the running call and the lists returned
\* by the completed calls
DetectionLists == {dets} \cup { returned[c].detections : c \in 1..Len(returned) }

\* a detection without its back-reference to the lightcurve
DetectionData(det) ==
    [ peak_idx |-> det.peak_idx, time_peak |-> det.time_peak, snr |-> det.snr,
      time_indices |-> det.time_indices, time_start |-> det.time_start,
      time_end |-> det.time_end, simulated |-> det.simulated,
      sim_pars |-> det.sim_pars ]

\* what C6 says of a state and of a step
C6_State ==
    /\ \A list \in DetectionLists : Len(list) <= pars.max_det_per_lc
    /\ pc = "loop" => /\ Len(dets) = iter
                      /\ iter <= pars.max_det_per_lc
                      /\ LoopContinues(iter, pars.max_det_per_lc) => It_idx \in Idx

C6_Step ==
    /\ (pc = "loop" /\ ~It_above) =>
          /\ pc' = "idle"
          /\ returned' = Append(returned, CallRecord(curLc, "none", dets))
    /\ (pc = "loop" /\ pc' = "loop") => iter' = iter + 1

\* C6: a call emits at most max_det_per_lc detections for a lightcurve, an
\* iteration whose masked maximum does not exceed snr_threshold ends the
\* call with the detections made before it, and the loop terminates: every
\* step of a call in the loop either ends the call or completes one more of
\* the at most max_det_per_lc iterations, and each iteration finds its peak.
C6_BoundedExtraction == [](C6_State) /\ [][C6_Step]_vars

\* C6 witness: with a cap of 2, a call that made one detection and then
\* stopped at an iteration whose maximum did not exceed the threshold
C6_Witness ==
    /\ pars.max_det_per_lc = 2
    /\ pc = "idle"
    /\ Len(returned) >= 1
    /\ returned[Len(returned)].err = "none"
    /\ Len(returned[Len(returned)].detections) = 1

\* C7: the time_indices of two detections emitted from the same lightcurve
\* in the same call are disjoint.
C7_DisjointWindows ==
    \A list \in DetectionLists :
        \A a, b \in 1..Len(list) :
            a # b => WhereTrue(list[a].time_indices) \cap WhereTrue(list[b].time_indices) = {}

\* the peak index and the window of each detection of a list
PeaksAndWindows(list) ==
    [k \in 1..Len(list) |->
        [peak_idx |-> list[k].peak_idx, time_indices |-> list[k].time_indices]]

\* C8: ingesting the same lightcurve (raw data unchanged) a second time
\* yields the same detections, peak indices and windows, as the first call.
C8_RerunSameDetections ==
    \A c1, c2 \in 1..Len(returned) :
        returned[c1].lc = returned[c2].lc =>
            /\ returned[c1].err = returned[c2].err
            /\ PeaksAndWindows(returned[c1].detections)
                 = PeaksAndWindows(returned[c2].detections)

\* the calls that found their lightcurve as constructed
FirstCallOnItsLc(c) == \A b \in 1..(c - 1) : returned[b].lc # returned[c].lc

\* the first calls on the two lightcurves have the same outcome
C9_SameResults ==
    \A c1, c2 \in 1..Len(returned) :
        (FirstCallOnItsLc(c1) /\ FirstCallOnItsLc(c2)) =>
            /\ returned[c1].err = returned[c2].err
            /\ [k \in 1..Len(returned[c1].detections) |->
                   DetectionData(returned[c1].detections[k])]
                 = [k \in 1..Len(returned[c2].detections) |->
                       DetectionData(returned[c2].detections[k])]

\* C9: two distinct lightcurves with identical data, ingested through the
\* same Finder, whichever comes first, get identical detections (each in
\* the first call made on it), and no step of a call changes the Finder's
\* parameters.
C9_Stateless == [](C9_SameResults) /\ [][pars' = pars]_vars

\* C9 witness: both lightcurves were ingested, one after the other, and
\* each call returned a detection
C9_Witness ==
    /\ Len(returned) = 2
    /\ returned[1].lc # returned[2].lc
    /\ Len(returned[1].detections) >= 1
    /\ Len(returned[2].detections) >= 1

\* C10: the peak index of every emitted detection belongs to its
\* time_indices.
C10_PeakInWindow ==
    \A list \in DetectionLists :
        \A k \in 1..Len(list) : list[k].time_indices[list[k].peak_idx]


\* C11: whenever the masked maximum of an iteration exceeds snr_threshold the
\* detection is assembled: the event window has a True index to take the
\* start and the end from, and no call ends with an error.
C11_AssemblyCompletes ==
    /\ (pc = "loop" /\ LoopContinues(iter, pars.max_det_per_lc) /\ It_above)
           => WhereTrue(It_indices) # {}
    /\ \A c \in 1..Len(returned) : returned[c].err = "none"

\* the points of a lightcurve that are neither flagged nor NaN in snr
UsablePoints(raw) ==
    { i \in Idx : ~raw.flag[i] /\ ~IsNan(ComputeSnr(raw)[i]) }

\* C12: a call on a lightcurve whose every point is flagged or has NaN snr
\* makes no detection in its first iteration and returns an empty list
\* without an error, whatever snr_threshold is.
C12_NoUsablePointNoDetection ==
    /\ (pc = "loop" /\ UsablePoints(lcRaw[curLc]) = {}) => dets = <<>>
    /\ \A c \in 1..Len(returned) :
           UsablePoints(lcRaw[returned[c].lc]) = {}
               => returned[c].err = "none" /\ returned[c].detections = <<>>

\* C13: after every call the snr and dmag columns of the lightcurve are the
\* scores of its raw data: snr[i] = (flux[i] - flux_mean_robust) /
\* max(fluxerr[i], flux_rms_robust) and dmag[i] = mag[i] - median(mag).
C13_ScoresReproduced ==
    (pc = "idle" /\ returned # <<>>) =>
        \A c \in 1..Len(returned) :
            LET lc == returned[c].lc
                raw == lcRaw[lc]
            IN \A i \in Idx :
                /\ lcSnr[lc][i] = Div(Sub(raw.flux[i], raw.flux_mean_robust),
                                      Maximum(raw.fluxerr[i], raw.flux_rms_robust))
                /\ lcDmag[lc][i] = Sub(Num(raw.mag[i]), Median(raw.mag))


\* the derived columns of a lightcurve
DerivedColumns(lc) == <<lcSnr[lc], lcDmag[lc], lcDetected[lc]>>

\* C14: a step of ingest_lightcurves leaves the raw columns and the robust
\* statistics of every lightcurve as they were, and leaves the derived
\* columns of every lightcurve other than the one it processes as they were.
C14_Frame ==
    [][ /\ lcRaw' = lcRaw
        /\ \A lc \in LCs : lc # curLc' => DerivedColumns(lc)' = DerivedColumns(lc) ]_vars

\* two calls on different lightcurves, the second one with a detection
C14_Witness ==
    /\ Len(returned) >= 2
    /\ returned[1].lc # returned[2].lc
    /\ returned[2].detections # <<>>
    /\ lcSnr[returned[1].lc] # <<>>

\* C15: a detection added to the list never has its peak at an index that
\* is flagged, has NaN snr, or was marked detected when the iteration began.
C15_MaskedNeverPeaks ==
    [][ Len(dets') = Len(dets) + 1 =>
            LET p == dets'[Len(dets')].peak_idx
            IN /\ ~lcRaw[curLc].flag[p]
               /\ ~IsNan(ComputeSnr(lcRaw[curLc])[p])
               /\ ~lcDetected[curLc][p] ]_vars

\* the usable points of the running call's lightcurve that are not marked
\* detected and whose snr (absolute, when abs_snr) is above snr_threshold
Candidates ==
    { i \in UsablePoints(lcRaw[curLc]) :
        /\ ~lcDetected[curLc][i]
        /\ Gt(WorkingSnr(ComputeSnr(lcRaw[curLc]), pars)[i], Num(pars.snr_threshold)) }

\* C16: when max_det_per_lc >= 1 and the lightcurve has a candidate point,
\* the first iteration of a call emits a detection at an index holding the
\* maximum masked snr; when the candidate is the only one and
\* max_det_per_lc = 1, the peak time of that detection is the time of the
\* candidate and the call returns that detection alone.
C16_FirstDetectionAtMaximum ==
    [][ (pc = "loop" /\ iter = 0 /\ pars.max_det_per_lc >= 1 /\ Candidates # {}) =>
            /\ Len(dets') = 1
            /\ \A j \in Idx : ~Gt(It_masked[j], It_masked[dets'[1].peak_idx])
            /\ \A i \in Candidates :
                   (Candidates = {i} /\ pars.max_det_per_lc = 1) =>
                       /\ dets'[1].time_peak = lcRaw[curLc].time[i]
                       /\ ~LoopContinues(iter', pars.max_det_per_lc) ]_vars

\* C17: with abs_snr on, an iteration whose maximum is at an unmasked point
\* of negative snr and exceeds snr_threshold emits a detection peaking at
\* that point; with abs_snr off, every emitted detection peaks at a point
\* whose signed snr exceeds snr_threshold.
C17_DipsDetectable ==
    [][ /\ ( /\ pc = "loop"
             /\ LoopContinues(iter, pars.max_det_per_lc)
             /\ pars.abs_snr
             /\ It_above
             /\ It_idx \in UsablePoints(lcRaw[curLc])
             /\ ~lcDetected[curLc][It_idx]
             /\ Gt(Num(0), ComputeSnr(lcRaw[curLc])[It_idx]) )
           => /\ Len(dets') = Len(dets) + 1
              /\ dets'[Len(dets')].peak_idx = It_idx
        /\ (~pars.abs_snr /\ Len(dets') = Len(dets) + 1)
           => Gt(ComputeSnr(lcRaw[curLc])[dets'[Len(dets')].peak_idx],
                 Num(pars.snr_threshold)) ]_vars

\* the membership threshold T of the event window
C18_T ==
    IF ~pars.sidebands.present THEN pars.snr_threshold
    ELSE IF pars.sidebands.value < 0 THEN pars.snr_threshold + pars.sidebands.value
         ELSE pars.sidebands.value

\* C18: the time_indices of every detection is the set of the indices whose
\* value in the snr column is greater than T, where T is snr_threshold plus
\* the sideband when the sideband is configured and negative, the sideband
\* when it is configured and not negative, and snr_threshold otherwise.
C18_WindowIsAboveThreshold ==
    [][ Len(dets') = Len(dets) + 1 =>
            WhereTrue(dets'[Len(dets')].time_indices)
                = { i \in Idx : Gt(lcSnr'[curLc][i], Num(C18_T)) } ]_vars

\* a detection made under a sideband that is not negative, whose window
\* leaves out a point above snr_threshold
C18_Witness ==
    /\ pc = "loop"
    /\ dets # <<>>
    /\ pars.sidebands.present
    /\ pars.sidebands.value >= 0
    /\ WhereTrue(dets[Len(dets)].time_indices) # {}
    /\ \E i \in Idx :
           /\ ~dets[Len(dets)].time_indices[i]
           /\ Gt(lcSnr[curLc][i], Num(pars.snr_threshold))

\* C19: a detection built for the peak index p carries the time at p, the
\* snr score of the point p (the signed value of the formula, not a working
\* value), the times at the first and the last True index of its
\* time_indices, simulated = TRUE exactly when a mapping was passed as sim,
\* and that argument as sim_pars.
C19_DetectionFields ==
    [][ Len(dets') = Len(dets) + 1 =>
            LET det == dets'[Len(dets')]
                raw == lcRaw[curLc]
                window == WhereTrue(det.time_indices)
            IN /\ det.time_peak = raw.time[det.peak_idx]
               /\ det.snr = ComputeSnr(raw)[det.peak_idx]
               /\ window # {}
               /\ \E first, last \in window :
                      /\ \A i \in window : first <= i /\ i <= last
                      /\ det.time_start = raw.time[first]
                      /\ det.time_end = raw.time[last]
               /\ det.simulated = sim.given
               /\ det.sim_pars = sim ]_vars

\* does an element of the NamedList carry the name, under its case option?
NL_Carries(name) ==
    \E k \in 1..Len(nl) :
        IF nlIgnorecase THEN Lower(nl[k].name) = Lower(name) ELSE nl[k].name = name

\* C20: indexing a NamedList with a name that no element carries raises
\* ValueError, with an integer outside the list IndexError, and with a key
\* that is neither a string nor an integer TypeError; a call that raises
\* leaves the list as it was.
C20_LookupErrors ==
    /\ [](nlCall.op = "getitem" =>
            LET key == nlCall.key[1]
            IN /\ (key.kind = "str" /\ ~NL_Carries(key.s)) => nlCall.err = "ValueError"
               /\ (key.kind = "int" /\ (key.i >= Len(nl) \/ key.i < 0 - Len(nl)))
                      => nlCall.err = "IndexError"
               /\ key.kind \notin {"str", "int"} => nlCall.err = "TypeError")
    /\ [][nlCall'.err # "none" => nl' = nl /\ nlIgnorecase' = nlIgnorecase]_vars

\* a lookup, in a case-sensitive list, of a name that an element carries in
\* another letter case only
C20_Witness ==
    /\ nlCall.op = "getitem"
    /\ nlCall.err = "ValueError"
    /\ ~nlIgnorecase
    /\ \E k \in 1..Len(nl) : Lower(nl[k].name) = Lower(nlCall.key[1].s)

\* the positions (1-based) of the NamedList whose name matches, under the
\* list's case option
NL_Matches(name) ==
    { k \in 1..Len(nl) :
        IF nlIgnorecase THEN Lower(nl[k].name) = Lower(name) ELSE nl[k].name = name }

\* C21: every append lengthens the NamedList by the appended element,
\* whatever names the list holds; a lookup by name returns the first
\* element, in list order, whose name matches; a lookup by position returns
\* the element at that position; keys() returns the names as stored, in
\* list order.
C21_NoDeduplication ==
    /\ [](/\ (nlCall.op = "getitem" /\ nlCall.err = "none" /\ nlCall.key[1].kind = "str")
                => \E k \in NL_Matches(nlCall.key[1].s) :
                       /\ \A j \in NL_Matches(nlCall.key[1].s) : k <= j
                       /\ nlCall.result[1] = nl[k]
          /\ (nlCall.op = "getitem" /\ nlCall.err = "none" /\ nlCall.key[1].kind = "int")
                => LET p == nlCall.key[1].i
                   IN nlCall.result[1] = nl[(IF p < 0 THEN p + Len(nl) ELSE p) + 1]
          /\ nlCall.op = "keys"
                => /\ Len(nlCall.result[1]) = Len(nl)
                   /\ \A k \in 1..Len(nl) : nlCall.result[1][k] = nl[k].name)
    /\ [][\A value \in Pool :
              NL_append(value) => Len(nl') = Len(nl) + 1 /\ nl' = nl \o <<value>>]_vars

\* a lookup by name in a list with two elements of that name, and a list
\* with two equal elements
C21_Witness ==
    /\ nlCall.op = "getitem"
    /\ nlCall.err = "none"
    /\ nlCall.key[1].kind = "str"
    /\ \E j, k \in NL_Matches(nlCall.key[1].s) : j < k /\ nl[j] # nl[k]
    /\ \E j, k \in 1..Len(nl) : j < k /\ nl[j] = nl[k]

\* C22: for every string name, `name in list` is True exactly when
\* list[name] returns an element; the name matches in any letter case with
\* ignorecase on, and only as written with ignorecase off.
C22_UniformCase ==
    /\ [](/\ nlCall.op = "contains"
                => (nlCall.result[1] <=> NL_Matches(nlCall.key[1].s) # {})
          /\ (nlCall.op = "getitem" /\ nlCall.key[1].kind = "str")
                => (nlCall.err = "none" <=> NL_Matches(nlCall.key[1].s) # {}))
    /\ [][\A key \in NLKeys :
              key.kind = "str" =>
                  (NL_contains_result(nl, nlIgnorecase, key.s)
                       <=> NL_getitem_error(nl, nlIgnorecase, key) = "none")]_vars

\* a membership test that succeeds through a letter case other than the
\* stored one
C22_Witness ==
    /\ nlCall.op = "contains"
    /\ nlCall.result[1]
    /\ nlIgnorecase
    /\ \A k \in 1..Len(nl) : nl[k].name # nlCall.key[1].s

(***************************************************************************)
(* Claims about the lookups of the UniqueList (SpecULGet).                 *)
(***************************************************************************)
\* does the comparison field number j (1-based) of item equal the string s,
\* under the list's case option?
UL_FieldIs(item, j, s) ==
    IF ulIgnorecase THEN Lower(item[ulAttrs[j]]) = Lower(s) ELSE item[ulAttrs[j]] = s

\* the elements of the list whose first m comparison fields equal key[1..m]
UL_Matching(key, m) ==
    SelectSeq(ul, LAMBDA item : \A j \in 1..m : UL_FieldIs(item, j, key[j]))

C25_NotFoundIsKeyError ==
    [][\A key \in ULKeys :
          UL_getitem(key) =>
              /\ (key.kind = "str" /\ UL_Matching(<<key.s>>, 1) = <<>>)
                     => ulCall'.err = "KeyError" /\ ulCall'.result.kind = "none"
              /\ (/\ key.kind = "seq"
                  /\ Len(key.seq) <= Len(ulAttrs)
                  /\ UL_Matching(key.seq, Len(key.seq)) = <<>>)
                     => ulCall'.err = "KeyError" /\ ulCall'.result.kind = "none"
              /\ key.kind \notin {"int", "str", "seq"}
                     => ulCall'.err = "TypeError" /\ ulCall'.result.kind = "none"]_vars

\* C26: an assignment of value to a valid position p of the UniqueList
\* (negative positions count from the end) raises ValueError exactly when
\* an element at another position has the composite key of value, and then
\* leaves the list as it was; otherwise it puts value at position p.
C26_SetitemChecksOthers ==
    [][\A value \in Pool : \A key \in (0 - Len(ul))..(Len(ul) - 1) :
          UL_setitem(key, value) =>
              LET p == IF key < 0 THEN key + Len(ul) + 1 ELSE key + 1
                  clash == \E i \in 1..Len(ul) :
                               i # p /\ UL_check(ulAttrs, ulIgnorecase, value, ul[i])
              IN /\ ulCall'.err = "ValueError" <=> clash
                 /\ clash => ul' = ul
                 /\ ~clash => ul' = [ul EXCEPT ![p] = value]]_vars

\* are the comparison fields of the two objects equal up to letter case?
UL_SameUpToCase(a, b) ==
    \A j \in 1..Len(ulAttrs) : Lower(a[ulAttrs[j]]) = Lower(b[ulAttrs[j]])

\* are they equal as written?
UL_SameAsWritten(a, b) ==
    \A j \in 1..Len(ulAttrs) : a[ulAttrs[j]] = b[ulAttrs[j]]

\* is the lookup key the full composite key of the object, up to letter case?
UL_KeyNames(key, item) ==
    \/ /\ key.kind = "str"
       /\ Len(ulAttrs) = 1
       /\ Lower(key.s) = Lower(item[ulAttrs[1]])
    \/ /\ key.kind = "seq"
       /\ Len(key.seq) = Len(ulAttrs)
       /\ \A j \in 1..Len(ulAttrs) : Lower(key.seq[j]) = Lower(item[ulAttrs[j]])

\* C27: with ignorecase on, an append leaves the appended element as the
\* only one with its composite key up to letter case, and a lookup by the
\* composite key of an element in any letter case returns that element;
\* with ignorecase off, an append removes no element whose key differs from
\* the appended one as written, be it in letter case only.
C27_IgnoreCase ==
    [][ /\ \A value \in Pool :
              UL_append(value) =>
                  IF ulIgnorecase
                  THEN /\ ul'[Len(ul')] = value
                       /\ \A k \in 1..(Len(ul') - 1) : ~UL_SameUpToCase(ul'[k], value)
                  ELSE ul' = SelectSeq(ul, LAMBDA o : ~UL_SameAsWritten(o, value))
                                 \o <<value>>
        /\ \A key \in ULKeys :
              (UL_getitem(key) /\ ulIgnorecase) =>
                  \A k \in 1..Len(ul) :
                      UL_KeyNames(key, ul[k]) =>
                          /\ ulCall'.err = "none"
                          /\ ulCall'.result = [kind |-> "element", item |-> ul[k]] ]_vars

\* with ignorecase on, a lookup by "A" in a list of two elements that
\* returned the element named "a"
C27_Witness ==
    /\ ulIgnorecase
    /\ ulCall.op = "getitem"
    /\ ulCall.key.kind = "str"
    /\ ulCall.key.s = "A"
    /\ ulCall.result.kind = "element"
    /\ ulCall.result.item.name = "a"
    /\ Len(ul) = 2

(***************************************************************************)
(* C28: SmartSession yields a NoOpSession whenever NO_DB_SESSION is True,  *)
(* whatever is passed as input session, or when the input is False; on a   *)
(* NoOpSession add, delete, commit and rollback change nothing, all()      *)
(* returns [] and first() returns None, and _transaction is always None.   *)
(***************************************************************************)
C28_NoOpSession ==
    /\ [][\A input_session \in SSInputs :
            (SS_enter(input_session) /\ (noDbSession \/ input_session = "False"))
                => /\ ssCall'.err = "none"
                   /\ ssCall'.result = "NoOpSession"
                   /\ Len(ssStack') = Len(ssStack) + 1
                   /\ ssStack'[Len(ssStack')].yields = "NoOpSession"]_vars
    /\ [][\A method \in {"add", "delete", "commit", "rollback"} :
            NoOp_call(method)
                => /\ ssCall'.err = "none"
                   /\ UNCHANGED <<inTransaction, pending, stored, ssStack>>]_vars
    /\ [](ssCall.target = "NoOpSession" /\ ssCall.op \in NoOpMethods
            => /\ ssCall.op = "all" => ssCall.result = "[]"
               /\ ssCall.op = "first" => ssCall.result = "None"
               /\ ssCall.op = "_transaction" => ssCall.result = "None")

\* with the switch on, a context entered with the real session has yielded
\* a NoOpSession while that session holds a transaction
C28_Witness ==
    /\ noDbSession
    /\ inTransaction
    /\ ssCall.op = "enter"
    /\ ssCall.target = "Session"
    /\ ssCall.result = "NoOpSession"

\* the contexts still open that opened the session themselves
SS_Creators(stack) == {i \in 1..Len(stack) : stack[i].created}

(***************************************************************************)
(* C29: a session is closed at the exit of a SmartSession context exactly  *)
(* when that context created it.  SmartSession(None) opens a new session,  *)
(* one that no open context holds, and after the exit it has no            *)
(* transaction and a query on it raises; SmartSession(existing_session)    *)
(* yields that same session and its exit leaves the session as it was; at  *)
(* any nesting depth the session stays open while a context that created   *)
(* it is still open.                                                       *)
(***************************************************************************)
C29_ClosedByItsCreator ==
    /\ [][(SS_enter("None") /\ ~noDbSession)
            => /\ ssCall'.result = "Session"
               /\ \A i \in 1..Len(ssStack) : ssStack[i].yields # "Session"]_vars
    /\ [][(SS_exit /\ ssStack[Len(ssStack)].created)
            => /\ ~inTransaction'
               /\ Session_error("all")' = "InvalidRequestError"]_vars
    /\ [][(SS_enter("Session") /\ ~noDbSession)
            => /\ ssCall'.result = "Session"
               /\ UNCHANGED <<inTransaction, pending>>]_vars
    /\ [][(SS_exit /\ ~ssStack[Len(ssStack)].created)
            => UNCHANGED <<inTransaction, pending>>]_vars
    /\ [][(SS_exit /\ SS_Creators(ssStack') # {})
            => UNCHANGED <<inTransaction, pending>>]_vars

\* the fully resolved path lies in one of the allowed roots
Mk_Inside(path) ==
    \E d \in allowed_dirs(DATA_ROOT) :
        commonpath_is_parent(realpath(links, d), realpath(links, path))

(***************************************************************************)
(* C30: safe_mkdir creates the folder and its missing parents only when    *)
(* the fully resolved path lies inside one of the allowed roots            *)
(* (DATA_ROOT, CODE_ROOT/results, CODE_ROOT/catalogs, DATA_TEMP); for any  *)
(* other path, one that leaves an allowed root through ".." or one whose   *)
(* name only begins like an allowed root included, it raises ValueError    *)
(* and creates nothing.                                                    *)
(***************************************************************************)
C30_OnlyInsideAllowedRoots ==
    [][\A path \in MkPaths :
          safe_mkdir(path)
              => IF Mk_Inside(path)
                 THEN fs' \ fs # {} => mkCall'.err = "none"
                 ELSE /\ mkCall'.err = "ValueError"
                      /\ fs' = fs]_vars

(***************************************************************************)
(* C31: within one ingest_lightcurves call the indices of an emitted       *)
(* detection cannot be claimed again: no two detections of the call have   *)
(* the same peak index, and the peak of a later detection is not in the    *)
(* time_indices of an earlier one.                                         *)
(***************************************************************************)
C31_NoReclaim ==
    \A list \in DetectionLists :
        \A a, b \in 1..Len(list) :
            a < b => /\ list[a].peak_idx # list[b].peak_idx
                     /\ ~list[a].time_indices[list[b].peak_idx]

It_emits ==
    /\ pc = "loop"
    /\ LoopContinues(iter, pars.max_det_per_lc)
    /\ It_above
    /\ WhereTrue(It_indices) # {}

(***************************************************************************)
(* C33: the detections of one lightcurve in one call are emitted, and      *)
(* appended to the returned list, with non-increasing masked significance  *)
(* (the value of the masked array at the peak: |snr| when abs_snr, else    *)
(* snr): the peak value of each later detection is at most that of the     *)
(* detection before it.                                                    *)
(***************************************************************************)
C33_NonIncreasingPeaks ==
    [][(Ingest_detect /\ It_emits')
          => /\ ~Gt(It_mx', It_mx)
             /\ SubSeq(dets', 1, Len(dets)) = dets]_vars

\* the points the mask of the coming iteration leaves in
It_unmasked ==
    LET w == WorkingSnr(lcSnr[curLc], pars)
        mask == ExclusionMask(lcDetected[curLc], lcRaw[curLc].flag, w)
    IN { i \in Idx : ~mask[i] }

(***************************************************************************)
(* C34: when several unmasked points share the exact maximum of the masked *)
(* SNR, the detection is emitted at the earliest (lowest) of those         *)
(* indices.                                                                *)
(***************************************************************************)
C34_EarliestOfTies ==
    [][Ingest_detect
          => LET tied == { i \in It_unmasked : It_masked[i] = It_mx }
             IN Cardinality(tied) >= 2
                   => dets'[Len(dets')].peak_idx = FirstOf(tied)]_vars

\* append(x) for each x of value, in order, starting from a buffer and its
\* total; an append that raises ends the sequence
RECURSIVE CBL_append_each(_, _, _, _)
CBL_append_each(list, size, total, value) ==
    IF value = <<>> THEN [list |-> list, total |-> total, err |-> "none"]
    ELSE IF CBL_append_error(list, size) # "none"
         THEN [list |-> list, total |-> total, err |-> CBL_append_error(list, size)]
         ELSE CBL_append_each(CBL_append_result(list, size, Head(value)), size,
                              CBL_append_total(list, size, total), Tail(value))

(***************************************************************************)
(* C35: for a CircularBufferList of any capacity and any content,          *)
(* extend(xs), and plus(xs), leaves the buffer content and the total equal *)
(* to what appending the elements of xs one at a time, in order, produces. *)
(***************************************************************************)
C35_ExtendIsRepeatedAppend ==
    [][\A value \in SeqsUpTo(CBLValues, MaxExt) :
          CBL_extend(value)
              => LET each == CBL_append_each(cbl, cblSize, cblTotal, value)
                 IN /\ each.err = "none"
                    /\ cbl' = each.list
                    /\ cblTotal' = each.total]_vars

====
